---- MODULE Spec2Model ----
(***************************************************************************)
(* State-machine model of the ml_investment feature toolkit:               *)
(*   - calc_series_stats                    (src/features.py)              *)
(*   - FeatureMerger.calculate              (src/features.py)              *)
(*   - QuarterlyFeatures._single_ticker and .calculate (worker pool)       *)
(*   - BaseCompanyFeatures.calculate        (src/features.py)              *)
(*   - DailyBarsData.load                   (data_loaders/daily_bars.py)   *)
(*   - FairMarketcapDiffSF1                 (applications/...)             *)
(* Each component has its own variables and its own specification; a       *)
(* specification holds the other components' variables at their idle       *)
(* values.                                                                 *)
(***************************************************************************)
EXTENDS Integers, Sequences, FiniteSets, TLC

VARIABLES
    \* calc_series_stats
    series,      \* the argument `series`
    dtype,       \* element type numpy infers for a non-empty filtered series
    stats,       \* the returned dict, NotComputed before the call, Raised on error
    \* FeatureMerger.calculate
    X1,          \* table returned by fc1.calculate
    X2,          \* table returned by fc2.calculate
    X,           \* the merged table, NotComputed before the call
    \* QuarterlyFeatures
    quarterly,        \* dataset: what load_quarterly_data_cf1 gives per ticker
    max_back_quarter, \* self.max_back_quarter
    tickers,          \* the argument `tickers` of calculate
    n_jobs,           \* the argument `n_jobs` of calculate
    qf_pc,            \* position of the coordinating process in calculate
    submitted,        \* number of tasks handed to workers so far
    running,          \* worker -> index of the task it runs, 0 when idle
    results,          \* task index -> result received from its worker
    arrived,          \* task indices in the order their results arrived
    next_i,           \* index of the result the imap iterator yields next
    Xq,               \* the list X of calculate
    single,           \* result of a direct _single_ticker call
    \* BaseCompanyFeatures.calculate
    bcf_tickers,      \* the argument `tickers`
    tickers_df,       \* the table read from {data_path}/cf1/tickers.csv
    bcf_result,       \* the returned table, NotComputed before the call
    \* DailyBarsData
    files,            \* ticker -> the file {data_path}/{ticker}.csv, or none
    days_count,       \* self.days_count
    index,            \* the argument `index` of load
    db_result,        \* what load returned, NotComputed before the call
    \* FairMarketcapDiffSF1
    sf1_dir,          \* os.path.exists(config['sf1_data_path'])
    commodities_dir,  \* os.path.exists(config['commodities_data_path'])
    core_file,        \* os.path.exists(core_path)
    pretrained,       \* the argument of the call in progress
    app_pc,           \* position inside FairMarketcapDiffSF1
    app_calls,        \* number of calls started
    fs0,              \* what existed when the call in progress started
    log,              \* what the call in progress has invoked, in order
    prev_log          \* the log of the previous call

statsVars == <<series, dtype, stats>>
mergeVars == <<X1, X2, X>>
qfInputs == <<quarterly, max_back_quarter, tickers, n_jobs>>
qfVars == <<quarterly, max_back_quarter, tickers, n_jobs, qf_pc, submitted,
            running, results, arrived, next_i, Xq, single>>
bcfVars == <<bcf_tickers, tickers_df, bcf_result>>
dbVars == <<files, days_count, index, db_result>>
appVars == <<sf1_dir, commodities_dir, core_file, pretrained, app_pc,
             app_calls, fs0, log, prev_log>>
vars == <<statsVars, mergeVars, qfVars, bcfVars, dbVars, appVars>>

----------------------------------------------------------------------------
(* Generic helpers *)

Max2(a, b) == IF a >= b THEN a ELSE b
Min2(a, b) == IF a <= b THEN a ELSE b

\* Sequences over S of length 0..n
SeqsUpTo(S, n) == UNION {[1..k -> S] : k \in 0..n}

\* Concatenation of a sequence of sequences, in order
RECURSIVE Flatten(_)
Flatten(ss) == IF ss = <<>> THEN <<>> ELSE Head(ss) \o Flatten(Tail(ss))

----------------------------------------------------------------------------
(* calc_series_stats, src/features.py:13-33                                *)

MaxLen == 3
MinVal == 0
MaxVal == 2

\* Scalars: a number, Python None, float NaN, and the int64 minimum
Num(x) == [kind |-> "num", v |-> x]
None == [kind |-> "none", v |-> 0]
NaN == [kind |-> "nan", v |-> 0]
Int64Min == [kind |-> "intmin", v |-> 0]

Nums == {Num(x) : x \in MinVal..MaxVal}

NotComputed == [state |-> "not_computed"]
Raised == [state |-> "raised"]

\* series[series != np.array(None)]  (line 15)
RECURSIVE FilterNone(_)
FilterNone(s) ==
    IF s = <<>> THEN <<>>
    ELSE IF Head(s) = None THEN FilterNone(Tail(s))
         ELSE <<Head(s)>> \o FilterNone(Tail(s))

\* np.diff(series)  (line 16): out[i] = series[i+1] - series[i]
NpDiff(s) ==
    IF Len(s) <= 1 THEN <<>>
    ELSE [i \in 1..(Len(s) - 1) |-> Num(s[i + 1].v - s[i].v)]

\* np.maximum / np.minimum on two scalars: NaN propagates
NpMaximum(a, b) ==
    IF a.kind = "nan" \/ b.kind = "nan" THEN NaN
    ELSE IF a.kind = "intmin" THEN b
    ELSE IF b.kind = "intmin" THEN a
    ELSE IF a.v >= b.v THEN a ELSE b

NpMinimum(a, b) ==
    IF a.kind = "nan" \/ b.kind = "nan" THEN NaN
    ELSE IF a.kind = "intmin" \/ b.kind = "intmin" THEN Int64Min
    ELSE IF a.v <= b.v THEN a ELSE b

\* ufunc.reduce(s, initial=init): the initial value takes part in the fold
RECURSIVE ReduceMaximum(_, _)
ReduceMaximum(s, init) ==
    IF s = <<>> THEN init ELSE ReduceMaximum(Tail(s), NpMaximum(init, Head(s)))

RECURSIVE ReduceMinimum(_, _)
ReduceMinimum(s, init) ==
    IF s = <<>> THEN init ELSE ReduceMinimum(Tail(s), NpMinimum(init, Head(s)))

\* What `initial=np.nan` becomes in the reduction's dtype.  An empty list is
\* a float64 array, and so is a list of Python floats: the initial value is
\* NaN.  A list of Python ints is an int64 array; NaN has no int64 value, the
\* conversion either raises ValueError or yields what the C cast yields on
\* the platform (INT64_MIN on x86-64, 0 on AArch64).
InitialOutcomes(s, dt) ==
    IF s = <<>> \/ dt = "float64" THEN {NaN}
    ELSE {Raised, Int64Min, Num(0)}

\* The dict of lines 18-31 for one outcome of the conversion of `initial`
\* (the mean, median and std entries are not modelled)
StatsWith(s, init, dinit) ==
    IF init = Raised \/ dinit = Raised THEN Raised
    ELSE [state |-> "returned",
          max |-> ReduceMaximum(s, init),
          min |-> ReduceMinimum(s, init),
          diff_max |-> ReduceMaximum(NpDiff(s), dinit),
          diff_min |-> ReduceMinimum(NpDiff(s), dinit)]

CalcSeriesStats ==
    /\ stats = NotComputed
    /\ LET s == FilterNone(series) IN
         \E init \in InitialOutcomes(s, dtype) :
           \E dinit \in InitialOutcomes(NpDiff(s), dtype) :
             stats' = StatsWith(s, init, dinit)
    /\ UNCHANGED <<series, dtype>>

InitStats ==
    /\ series \in SeqsUpTo(Nums \cup {None}, MaxLen)
    /\ dtype \in {"float64", "int64"}
    /\ stats = NotComputed

IdleStats ==
    /\ series = <<>>
    /\ dtype = "float64"
    /\ stats = NotComputed


\* True maximum / minimum of a non-empty sequence of numbers
TrueMax(s) == CHOOSE m \in {s[i].v : i \in 1..Len(s)} :
                  \A i \in 1..Len(s) : s[i].v <= m
TrueMin(s) == CHOOSE m \in {s[i].v : i \in 1..Len(s)} :
                  \A i \in 1..Len(s) : s[i].v >= m

\* C3: for a non-empty filtered series the max and min entries are the true
\* maximum and minimum; for an empty one both are NaN; no error is raised.
C3_MaxMinAreTrue ==
    stats # NotComputed =>
        /\ stats # Raised
        /\ LET s == FilterNone(series) IN
             IF s = <<>>
             THEN stats.max = NaN /\ stats.min = NaN
             ELSE stats.max = Num(TrueMax(s)) /\ stats.min = Num(TrueMin(s))

----------------------------------------------------------------------------
(* FeatureMerger, src/features.py:37-49                                    *)

MaxRows == 2

Keys == {"AAPL", "TSLA", "MSFT"}
ColVals == {"x", "y"}
Null == "null"

\* Rows of the two constituent tables: the join key `on` and one column each
LeftRows == [key : Keys, a : ColVals]
RightRows == [key : Keys, b : ColVals]

\* Positions of the rows of `right` whose key equals k, in table order
RECURSIVE Matches(_, _)
Matches(right, k) ==
    IF right = <<>> THEN <<>>
    ELSE (IF Head(right).key = k THEN <<Head(right)>> ELSE <<>>)
         \o Matches(Tail(right), k)

\* The output rows one left row gives under how='left'
LeftJoinRow(l, right) ==
    LET m == Matches(right, l.key) IN
      IF m = <<>> THEN <<[key |-> l.key, a |-> l.a, b |-> Null]>>
      ELSE [i \in 1..Len(m) |-> [key |-> l.key, a |-> l.a, b |-> m[i].b]]

\* how='inner': a left row without a match gives no row
InnerJoinRow(l, right) ==
    LET m == Matches(right, l.key) IN
      [i \in 1..Len(m) |-> [key |-> l.key, a |-> l.a, b |-> m[i].b]]

\* Rows of `right` whose key is not in `left`, as how='outer' appends them
RECURSIVE RightOnly(_, _)
RightOnly(left, right) ==
    IF right = <<>> THEN <<>>
    ELSE (IF \E i \in 1..Len(left) : left[i].key = Head(right).key
          THEN <<>>
          ELSE <<[key |-> Head(right).key, a |-> Null, b |-> Head(right).b]>>)
         \o RightOnly(left, Tail(right))

PdMergeInner(left, right) ==
    Flatten([i \in 1..Len(left) |-> InnerJoinRow(left[i], right)])
PdMergeOuter(left, right) ==
    Flatten([i \in 1..Len(left) |-> LeftJoinRow(left[i], right)])
        \o RightOnly(left, right)

\* pd.merge(X1, X2, on=self.on, how='left')  (line 47)
PdMergeLeft(left, right) ==
    Flatten([i \in 1..Len(left) |-> LeftJoinRow(left[i], right)])

\* FeatureMerger.calculate (lines 44-49)
FeatureMergerCalculate ==
    /\ X = NotComputed
    /\ X' = [state |-> "returned", rows |-> PdMergeLeft(X1, X2)]
    /\ UNCHANGED <<X1, X2>>

InitMerge ==
    /\ X1 \in SeqsUpTo(LeftRows, MaxRows)
    /\ X2 \in SeqsUpTo(RightRows, MaxRows)
    /\ X = NotComputed

IdleMerge ==
    /\ X1 = <<>>
    /\ X2 = <<>>
    /\ X = NotComputed

\* Number of rows of `right` with key k
NMatching(right, k) == Cardinality({i \in 1..Len(right) : right[i].key = k})

RECURSIVE SumSeq(_)
SumSeq(s) == IF s = <<>> THEN 0 ELSE Head(s) + SumSeq(Tail(s))

RightKeysUnique ==
    \A i, j \in 1..Len(X2) : X2[i].key = X2[j].key => i = j

\* C4 (as stated): the merged table has exactly as many rows as the left
\* table, whatever keys the right table holds.
C4_RowCountIsLeft ==
    X # NotComputed => Len(X.rows) = Len(X1)

\* C4 (amended): every left row contributes max(1, number of right rows with
\* its key) rows; the count is never below the left table's and equals it
\* when no key value repeats in the right table.
C4_RowCountLeftJoin ==
    X # NotComputed =>
        /\ Len(X.rows) =
              SumSeq([i \in 1..Len(X1) |-> Max2(1, NMatching(X2, X1[i].key))])
        /\ Len(X.rows) >= Len(X1)
        /\ RightKeysUnique => Len(X.rows) = Len(X1)

\* C4 witness: a merge was computed where the right table repeats a key the
\* left table holds, and one where the right keys are unique and non-empty.
C4_Witness ==
    /\ X # NotComputed
    /\ Len(X1) = 2
    /\ ~RightKeysUnique
    /\ X2[1].key = X1[1].key
    /\ Len(X.rows) = 3

\* C5: a right row whose key matches no left row never appears; a left row
\* without a match appears with its left columns and nulls on the right;
\* two single-row tables sharing the key give one row carrying both.
C5_LeftJoinRows ==
    X # NotComputed =>
        /\ \A j \in 1..Len(X2) :
              (\A i \in 1..Len(X1) : X1[i].key # X2[j].key) =>
                  \A r \in 1..Len(X.rows) : X.rows[r].key # X2[j].key
        /\ \A r \in 1..Len(X.rows) :
              /\ \E i \in 1..Len(X1) :
                    X1[i].key = X.rows[r].key /\ X1[i].a = X.rows[r].a
              /\ X.rows[r].b # Null =>
                    \E j \in 1..Len(X2) :
                      X2[j].key = X.rows[r].key /\ X2[j].b = X.rows[r].b
        /\ \A i \in 1..Len(X1) :
              NMatching(X2, X1[i].key) = 0 =>
                  /\ \E r \in 1..Len(X.rows) :
                        X.rows[r] = [key |-> X1[i].key, a |-> X1[i].a, b |-> Null]
                  /\ \A r \in 1..Len(X.rows) :
                        X.rows[r].key = X1[i].key => X.rows[r].b = Null
        /\ (Len(X1) = 1 /\ Len(X2) = 1 /\ X1[1].key = X2[1].key) =>
              X.rows = <<[key |-> X1[1].key, a |-> X1[1].a, b |-> X2[1].b]>>

\* C5 witness: a merge of a matched pair, a left row without a match and a
\* right row without a match gave the pair's row and the left row with a
\* null.
C5_Witness ==
    /\ X # NotComputed
    /\ Len(X1) = 2 /\ Len(X2) = 2
    /\ X1[1].key = X2[1].key
    /\ X1[2].key \notin {X2[1].key, X2[2].key}
    /\ X2[2].key \notin {X1[1].key, X1[2].key}
    /\ X.rows = <<[key |-> X1[1].key, a |-> X1[1].a, b |-> X2[1].b],
                  [key |-> X1[2].key, a |-> X1[2].a, b |-> Null]>>

----------------------------------------------------------------------------
(* QuarterlyFeatures, src/features.py:53-108                               *)

MaxTickers == 2
MaxQuarters == 3
MaxBack == 2
MaxJobs == 2
DefaultMaxBackQuarter == 10

QFTickers == {"AAPL", "TSLA"}

\* What load_quarterly_data_cf1 does for a ticker: it raises, or it returns
\* the ticker's records
LoadError == [state |-> "load_error"]
Loaded(s) == [state |-> "loaded", data |-> s]
Pending == [state |-> "pending"]

\* A quarterly sequence of n records, most recent first; the date of a record
\* is its quarter number
QuarterlySeq(n) == [i \in 1..n |-> [date |-> n - i + 1]]

\* quarterly_data[back_quarter:]  (line 82), back_quarter counted from 0
SliceFrom(s, b) == [i \in 1..Max2(0, Len(s) - b) |-> s[i + b]]

\* range(k): the offsets 0 .. k-1 as a sequence, empty when k <= 0
Range(k) == [i \in 1..Max2(0, k) |-> i - 1]

\* The row of one back-quarter offset (lines 82-90); the feature columns of
\* _calc_series_feats are a function of curr_data and are not carried
FeatsRow(ticker, quarterly_data, back_quarter) ==
    LET curr_data == SliceFrom(quarterly_data, back_quarter) IN
      [ticker |-> ticker, date |-> curr_data[1].date]

\* Bound of the loop with the `- 1` of line 80 dropped
BackQuarterBoundNoMinus(m, n) == Min2(m, n)

\* min(self.max_back_quarter, len(quarterly_data) - 1)  (line 80)
BackQuarterBound(m, n) == Min2(m, n - 1)

\* QuarterlyFeatures._single_ticker (lines 76-94); an error raised by the
\* loader propagates
SingleTicker(ticker, load, m) ==
    IF load = LoadError THEN Raised
    ELSE LET quarterly_data == load.data
             offsets == Range(BackQuarterBound(m, Len(quarterly_data)))
         IN  [state |-> "returned",
              rows |-> [i \in 1..Len(offsets) |->
                          FeatsRow(ticker, quarterly_data, offsets[i])]]

\* A direct call of _single_ticker on one ticker
SingleTickerCall ==
    /\ qf_pc = "single"
    /\ single = NotComputed
    /\ \E t \in QFTickers :
         single' = [ticker |-> t,
                    result |-> SingleTicker(t, quarterly[t], max_back_quarter)]
    /\ UNCHANGED <<qfInputs, qf_pc, submitted, running, results, arrived,
                   next_i, Xq>>

Workers == 1..n_jobs
NTasks == Len(tickers)

\* calculate, lines 98-101: the pool is created and imap queues one task
\* per ticker, in the order of `tickers`
CalculateStart ==
    /\ qf_pc = "start"
    /\ qf_pc' = "iterating"
    /\ UNCHANGED <<qfInputs, submitted, running, results, arrived, next_i, Xq,
                   single>>

\* An idle worker takes the next queued task
WorkerTake(w) ==
    /\ qf_pc # "start"
    /\ running[w] = 0
    /\ submitted < NTasks
    /\ submitted' = submitted + 1
    /\ running' = [running EXCEPT ![w] = submitted + 1]
    /\ UNCHANGED <<qfInputs, qf_pc, results, arrived, next_i, Xq, single>>

\* A worker finishes its task: the value or the exception of
\* _single_ticker is sent back under the task's index
WorkerFinish(w) ==
    /\ running[w] # 0
    /\ LET i == running[w] IN
         results' = [results EXCEPT
                       ![i] = SingleTicker(tickers[i], quarterly[tickers[i]],
                                           max_back_quarter)]
    /\ arrived' = Append(arrived, running[w])
    /\ running' = [running EXCEPT ![w] = 0]
    /\ UNCHANGED <<qfInputs, qf_pc, submitted, next_i, Xq, single>>

\* The result imap_unordered would yield: any one that has arrived
ReadyUnordered == {i \in 1..NTasks : results[i] # Pending}

\* The result the imap iterator yields: the one of index next_i, once it
\* has arrived, whatever else has arrived before it  (line 101)
ReadyOrdered == {i \in {next_i} : i <= NTasks /\ results[i] # Pending}

\* What the loop does with a yielded exception were it swallowed
OnFailureSkip(i) ==
    /\ Xq' = Xq
    /\ qf_pc' = qf_pc

\* A failed task's exception is re-raised by the iterator's next() and
\* leaves calculate  (line 101)
OnFailure(i) ==
    /\ Xq' = Xq
    /\ qf_pc' = "raised"

\* One iteration of the loop of lines 101-102
CalculateNext ==
    /\ qf_pc = "iterating"
    /\ \E i \in ReadyOrdered :
         /\ IF results[i] = Raised
            THEN OnFailure(i)
            ELSE /\ Xq' = Xq \o results[i].rows
                 /\ qf_pc' = qf_pc
         /\ results' = [results EXCEPT ![i] = Pending]
         /\ next_i' = next_i + 1
    /\ UNCHANGED <<qfInputs, submitted, running, arrived, single>>

\* The iterator is exhausted: X = pd.DataFrame(X); return X (lines 104-108)
CalculateReturn ==
    /\ qf_pc = "iterating"
    /\ next_i > NTasks
    /\ qf_pc' = "returned"
    /\ UNCHANGED <<qfInputs, submitted, running, results, arrived, next_i, Xq,
                   single>>

\* The lists `tickers` may be: any list of length 0..MaxTickers
TickerLists == SeqsUpTo(QFTickers, MaxTickers)

InitQFState ==
    /\ submitted = 0
    /\ running = [w \in 1..n_jobs |-> 0]
    /\ results = [i \in 1..Len(tickers) |-> Pending]
    /\ arrived = <<>>
    /\ next_i = 1
    /\ Xq = <<>>
    /\ single = NotComputed

InitPool ==
    /\ quarterly \in [QFTickers ->
                        {LoadError} \cup {Loaded(QuarterlySeq(n)) : n \in 0..MaxQuarters}]
    /\ max_back_quarter \in 0..MaxBack
    /\ tickers \in TickerLists
    /\ n_jobs \in 1..MaxJobs
    /\ qf_pc = "start"
    /\ InitQFState

InitSingle ==
    /\ quarterly \in [QFTickers ->
                        {LoadError} \cup {Loaded(QuarterlySeq(n)) : n \in 0..MaxQuarters}]
    /\ max_back_quarter \in 0..DefaultMaxBackQuarter
    /\ tickers = <<>>
    /\ n_jobs = 1
    /\ qf_pc = "single"
    /\ InitQFState

IdleQF ==
    /\ quarterly = [t \in QFTickers |-> Loaded(<<>>)]
    /\ max_back_quarter = DefaultMaxBackQuarter
    /\ tickers = <<>>
    /\ n_jobs = 1
    /\ qf_pc = "idle"
    /\ InitQFState

\* Number of rows a ticker with n quarterly records contributes
RowCount(m, n) == Max2(0, Min2(m, n - 1))

\* C1: for a ticker with n quarterly records and max_back_quarter = m,
\* _single_ticker returns exactly max(0, min(m, n-1)) rows and does not
\* raise; with 0 or 1 records it returns no rows.
C1_RowCount ==
    (single # NotComputed /\ quarterly[single.ticker] # LoadError) =>
        LET n == Len(quarterly[single.ticker].data) IN
          /\ single.result # Raised
          /\ Len(single.result.rows) = RowCount(max_back_quarter, n)
          /\ n <= 1 => single.result.rows = <<>>

\* C1 witness: a ticker with exactly 3 records and max_back_quarter = 10
\* gave exactly 2 rows.
C1_Witness ==
    /\ single # NotComputed
    /\ quarterly[single.ticker] # LoadError
    /\ Len(quarterly[single.ticker].data) = 3
    /\ max_back_quarter = DefaultMaxBackQuarter
    /\ Len(single.result.rows) = 2

\* The requested tasks whose per-ticker extraction raises
FailingTasks == {i \in 1..NTasks : quarterly[tickers[i]] = LoadError}

\* C9: when the extraction of a requested ticker raises, calculate never
\* returns a table; the failure leaves calculate as an exception, and only
\* a failure does.
C9_FailTheBatch ==
    /\ qf_pc = "returned" => FailingTasks = {}
    /\ qf_pc = "raised" => FailingTasks # {}

\* C9 witness: calculate raised after the rows of an earlier ticker had
\* been collected.
C9_Witness ==
    /\ qf_pc = "raised"
    /\ Len(Xq) > 0
    /\ Cardinality(FailingTasks) = 1

\* First position of task i's block in the returned table, less one
RECURSIVE BlockOffset(_)
BlockOffset(i) ==
    IF i <= 1 THEN 0
    ELSE BlockOffset(i - 1)
         + RowCount(max_back_quarter, Len(quarterly[tickers[i - 1]].data))

\* C10: whatever the order in which the workers finish, the returned table
\* is the blocks of the tickers in the order of `tickers`, block i holding
\* the rows of offsets b = 0, 1, ... of tickers[i], row b carrying the
\* ticker and the date of its b-th most recent record.
C10_OrderedBlocks ==
    qf_pc = "returned" =>
        /\ Len(Xq) = BlockOffset(NTasks + 1)
        /\ \A i \in 1..NTasks :
              LET data == quarterly[tickers[i]].data IN
                \A b \in 0..(RowCount(max_back_quarter, Len(data)) - 1) :
                  Xq[BlockOffset(i) + b + 1] =
                      [ticker |-> tickers[i], date |-> data[b + 1].date]

\* C10 witness: the second ticker's result arrived before the first's, both
\* contributed rows, and the table was returned.
C10_Witness ==
    /\ qf_pc = "returned"
    /\ Len(tickers) = 2
    /\ arrived = <<2, 1>>
    /\ tickers[1] # tickers[2]
    /\ Len(Xq) >= 3
    /\ Xq[1].ticker = tickers[1]
    /\ Xq[Len(Xq)].ticker = tickers[2]

----------------------------------------------------------------------------
(* BaseCompanyFeatures, src/features.py:112-129                            *)

MaxRequest == 2
MaxCsvRows == 2

BCFTickers == {"AAPL", "TSLA"}

\* A cell of tickers.csv that read_csv gives as NaN
NaNCell == "NaN"
\* The placeholder of fillna (line 127)
NoneStr == "None"

\* The category names, in the order np.unique sorts them
SortedNames == <<"Energy", "None", "Technology">>
Rank(v) == CHOOSE i \in 1..Len(SortedNames) : SortedNames[i] = v

SectorCells == {NaNCell, "Energy", "None", "Technology"}
IndustryCells == {NaNCell, "Energy"}

CsvRows == [ticker : BCFTickers, sector : SectorCells, sicindustry : IndustryCells]

\* The rows of tickers_df of ticker k, in table order
RECURSIVE CsvMatches(_, _)
CsvMatches(df, k) ==
    IF df = <<>> THEN <<>>
    ELSE (IF Head(df).ticker = k THEN <<Head(df)>> ELSE <<>>)
         \o CsvMatches(Tail(df), k)

\* pd.merge(result, tickers_df[['ticker'] + cat_columns], on='ticker',
\* how='left')  (lines 122-123)
MergeTickers(req, df) ==
    Flatten([i \in 1..Len(req) |->
        LET m == CsvMatches(df, req[i]) IN
          IF m = <<>>
          THEN <<[ticker |-> req[i], sector |-> NaNCell, sicindustry |-> NaNCell]>>
          ELSE m])

\* The column `name` of a table, as a sequence of cells
RECURSIVE SectorCol(_)
SectorCol(rows) ==
    IF rows = <<>> THEN <<>> ELSE <<Head(rows).sector>> \o SectorCol(Tail(rows))

RECURSIVE IndustryCol(_)
IndustryCol(rows) ==
    IF rows = <<>> THEN <<>>
    ELSE <<Head(rows).sicindustry>> \o IndustryCol(Tail(rows))

\* A fill that takes the value of the row above (ffill) and uses the
\* placeholder only where there is none
RECURSIVE FillFrom(_, _)
FillFrom(col, above) ==
    IF col = <<>> THEN <<>>
    ELSE LET v == IF Head(col) = NaNCell THEN above ELSE Head(col) IN
           <<v>> \o FillFrom(Tail(col), v)

FillnaFfill(col) == FillFrom(col, NoneStr)

\* result[col].fillna('None')  (line 127)
RECURSIVE Fillna(_)
Fillna(col) ==
    IF col = <<>> THEN <<>>
    ELSE <<IF Head(col) = NaNCell THEN NoneStr ELSE Head(col)>>
         \o Fillna(Tail(col))

\* le.transform(col) for fitted classes: the code of a value is its position
\* among the sorted classes, from 0
RECURSIVE Transform(_, _)
Transform(classes, col) ==
    IF col = <<>> THEN <<>>
    ELSE <<Cardinality({u \in classes : Rank(u) < Rank(Head(col))})>>
         \o Transform(classes, Tail(col))

\* le.fit_transform(col): the classes are the distinct values of col
FitTransform(col) == Transform({col[i] : i \in 1..Len(col)}, col)

\* The returned table: the tickers and the two encoded columns
RECURSIVE EncodedRows(_, _, _)
EncodedRows(merged, sector, industry) ==
    IF merged = <<>> THEN <<>>
    ELSE <<[ticker |-> Head(merged).ticker,
            sector |-> Head(sector),
            sicindustry |-> Head(industry)]>>
         \o EncodedRows(Tail(merged), Tail(sector), Tail(industry))

\* Lines 125-129 on the merged table, cat_columns = ['sector', 'sicindustry']
EncodeTable(merged) ==
    [state |-> "returned",
     merged |-> merged,
     rows |-> EncodedRows(merged,
                          FitTransform(Fillna(SectorCol(merged))),
                          FitTransform(Fillna(IndustryCol(merged))))]

\* BaseCompanyFeatures.calculate (lines 117-129)
BaseCompanyFeaturesCalculate ==
    /\ bcf_result = NotComputed
    /\ bcf_result' = EncodeTable(MergeTickers(bcf_tickers, tickers_df))
    /\ UNCHANGED <<bcf_tickers, tickers_df>>

InitBCF ==
    /\ bcf_tickers \in SeqsUpTo(BCFTickers, MaxRequest)
    /\ tickers_df \in SeqsUpTo(CsvRows, MaxCsvRows)
    /\ bcf_result = NotComputed

IdleBCF ==
    /\ bcf_tickers = <<>>
    /\ tickers_df = <<>>
    /\ bcf_result = NotComputed

\* C6: within one call and for each categorical column, all rows whose
\* value is absent get one code, different from the code of every row whose
\* value is present and not the string None; the codes of a column do not
\* depend on the other column.
C6_AbsentSharesOneCode ==
    bcf_result # NotComputed =>
        LET m == bcf_result.merged
            r == bcf_result.rows
        IN  /\ Len(r) = Len(m)
            /\ \A i, j \in 1..Len(m) :
                  /\ (m[i].sector = NaNCell /\ m[j].sector = NaNCell)
                        => r[i].sector = r[j].sector
                  /\ (m[i].sector = NaNCell /\ m[j].sector \notin {NaNCell, NoneStr})
                        => r[i].sector # r[j].sector
                  /\ (m[i].sicindustry = NaNCell /\ m[j].sicindustry = NaNCell)
                        => r[i].sicindustry = r[j].sicindustry
                  /\ (m[i].sicindustry = NaNCell
                        /\ m[j].sicindustry \notin {NaNCell, NoneStr})
                        => r[i].sicindustry # r[j].sicindustry
            \* a column's codes order its rows as its own values do
            /\ \A i, j \in 1..Len(m) :
                  LET si == IF m[i].sector = NaNCell THEN NoneStr ELSE m[i].sector
                      sj == IF m[j].sector = NaNCell THEN NoneStr ELSE m[j].sector
                      ii == IF m[i].sicindustry = NaNCell THEN NoneStr
                            ELSE m[i].sicindustry
                      ij == IF m[j].sicindustry = NaNCell THEN NoneStr
                            ELSE m[j].sicindustry
                  IN  /\ (r[i].sector < r[j].sector) <=> (Rank(si) < Rank(sj))
                      /\ (r[i].sicindustry < r[j].sicindustry)
                            <=> (Rank(ii) < Rank(ij))

\* C6 witness: a requested ticker missing from tickers.csv, a ticker listed
\* with an empty sector and a row with a sector present were encoded in one
\* call, the two absent ones alike.
C6_Witness ==
    /\ bcf_result # NotComputed
    /\ Len(bcf_result.rows) = 3
    /\ \E i, j, k \in 1..3 :
          /\ CsvMatches(tickers_df, bcf_result.merged[i].ticker) = <<>>
          /\ CsvMatches(tickers_df, bcf_result.merged[j].ticker) # <<>>
          /\ bcf_result.merged[j].sector = NaNCell
          /\ bcf_result.merged[k].sector = "Energy"
          /\ bcf_result.rows[i].sector = bcf_result.rows[j].sector
          /\ bcf_result.rows[k].sector # bcf_result.rows[i].sector
          /\ bcf_result.rows[k].sicindustry = bcf_result.rows[i].sicindustry

----------------------------------------------------------------------------
(* DailyBarsData, src/ml_investment/data_loaders/daily_bars.py:22-73       *)

MaxFileRows == 3
MaxDays == 2
MaxIndex == 2
DefaultDaysCount == 100000

DBTickers == {"AAPL", "TSLA"}

NoFile == [exists |-> FALSE, rows |-> <<>>]
\* A file of n bars in on-disk order, the Date of a bar being its day number
FileOf(n) == [exists |-> TRUE, rows |-> [i \in 1..n |-> [Date |-> i]]]

NoneResult == [state |-> "none"]

\* __init__ (lines 37-40): days_count is None (<<>>) or a number (<<n>>)
InitDaysCount(arg) == IF arg = <<>> THEN DefaultDaysCount ELSE arg[1]

\* df[::-1]
Reversed(s) == [i \in 1..Len(s) |-> s[Len(s) - i + 1]]

\* df[:k] for k >= 0
Take(s, k) == [i \in 1..Min2(k, Len(s)) |-> s[i]]

\* The slice of line 63 without the reversal
LastDaysUnreversed(rows, k) == Take(rows, k)

\* pd.read_csv(path)[::-1][:self.days_count]  (line 63)
LastDays(rows, k) == Take(Reversed(rows), k)

\* daily_df['ticker'] = ticker  (line 64)
Tagged(rows, ticker) ==
    [i \in 1..Len(rows) |-> [Date |-> rows[i].Date, ticker |-> ticker]]

\* A missing file read as an empty frame instead of being skipped
FramesOfMissingAsEmpty(idx) ==
    [i \in 1..Len(idx) |-> Tagged(LastDays(files[idx[i]].rows, days_count), idx[i])]

\* The list `result` after the loop of lines 59-65: one frame per requested
\* ticker that has a file, in the order of the request
RECURSIVE FramesOf(_)
FramesOf(idx) ==
    IF idx = <<>> THEN <<>>
    ELSE (IF ~files[Head(idx)].exists THEN <<>>
          ELSE <<Tagged(LastDays(files[Head(idx)].rows, days_count), Head(idx))>>)
         \o FramesOf(Tail(idx))

\* result['Date'].astype(np.datetime64)
Timestamp(d) == [day |-> d]

\* Lines 66-73: the concatenated table with its parsed `date` column, or None
LoadResult(frames) ==
    IF Len(frames) > 0
    THEN LET rows == Flatten(frames) IN
           [state |-> "table",
            rows |-> [i \in 1..Len(rows) |->
                        [Date |-> rows[i].Date, ticker |-> rows[i].ticker,
                         date |-> Timestamp(rows[i].Date)]]]
    ELSE NoneResult

\* DailyBarsData.load (lines 58-73)
Load ==
    /\ db_result = NotComputed
    /\ db_result' = LoadResult(FramesOf(index))
    /\ UNCHANGED <<files, days_count, index>>

InitDB ==
    /\ files \in [DBTickers -> {NoFile} \cup {FileOf(n) : n \in 0..MaxFileRows}]
    /\ \E arg \in SeqsUpTo(0..MaxDays, 1) : days_count = InitDaysCount(arg)
    /\ index \in SeqsUpTo(DBTickers, MaxIndex)
    /\ db_result = NotComputed

IdleDB ==
    /\ files = [t \in DBTickers |-> NoFile]
    /\ days_count = DefaultDaysCount
    /\ index = <<>>
    /\ db_result = NotComputed

\* The positions of the request whose ticker has a file
WithFile == {i \in 1..Len(index) : files[index[i]].exists}

\* C2: load returns None exactly when no requested ticker has a file (an
\* empty request included), and a table when at least one has.
C2_NoneIffNoFile ==
    db_result # NotComputed =>
        /\ WithFile = {} => db_result = NoneResult
        /\ WithFile # {} => db_result.state = "table"

\* C2 witness: a non-empty request none of whose tickers has a file
\* returned None.
C2_Witness ==
    /\ db_result = NoneResult
    /\ Len(index) = 2
    /\ index[1] # index[2]
    /\ WithFile = {}

\* Rows the i-th requested ticker contributes
Contribution(i) ==
    IF files[index[i]].exists
    THEN Min2(days_count, Len(files[index[i]].rows))
    ELSE 0

RECURSIVE DBOffset(_)
DBOffset(i) == IF i <= 1 THEN 0 ELSE DBOffset(i - 1) + Contribution(i - 1)

\* C8: a returned table is, in request order, for every requested ticker
\* with a file, the last min(days_count, file length) rows of the file, the
\* last row first, tagged with the ticker; a ticker without a file gives no
\* rows; no ticker gives more than days_count rows.
C8_LastDaysFirst ==
    (db_result # NotComputed /\ db_result # NoneResult) =>
        /\ Len(db_result.rows) = DBOffset(Len(index) + 1)
        /\ \A i \in 1..Len(index) :
              /\ Contribution(i) <= days_count
              /\ \A j \in 1..Contribution(i) :
                    LET n == Len(files[index[i]].rows)
                        row == db_result.rows[DBOffset(i) + j]
                    IN  /\ row.ticker = index[i]
                        /\ row.Date = files[index[i]].rows[n - j + 1].Date
                        /\ row.date = Timestamp(row.Date)

\* C8 witness: a table was returned for a request of a ticker without a
\* file and a ticker whose file is longer than days_count, capped at the
\* two most recent bars.
C8_Witness ==
    /\ db_result # NotComputed /\ db_result # NoneResult
    /\ Len(index) = 2
    /\ ~files[index[1]].exists
    /\ Len(files[index[2]].rows) = 3
    /\ days_count = 2
    /\ Len(db_result.rows) = 2
    /\ db_result.rows[1].Date = 3
    /\ db_result.rows[2].Date = 2

----------------------------------------------------------------------------
(* FairMarketcapDiffSF1,                                                   *)
(* src/ml_investment/applications/fair_marketcap_diff_sf1.py:57-174        *)

MaxCalls == 2

\* A download, a fetch or a load either succeeds or raises, which ends the
\* call; one that raises may have left a part of its target behind
Outcomes == {"ok", "raises", "raises_partial"}

\* download_sf1.main(), download_commodities.main(): whether the dataset
\* directory exists afterwards
DownloadMain(o) == (o # "raises")

\* urlretrieve(URL, core_path): whether the file exists afterwards
UrlRetrieve(o) == (o # "raises")

\* The check of line 58 made on the other directory
Sf1MissingWrongDir == ~commodities_dir

\* not os.path.exists(config['sf1_data_path'])  (line 58)
Sf1Missing == ~sf1_dir

\* not os.path.exists(config['commodities_data_path'])  (line 62)
CommoditiesMissing == ~commodities_dir

\* not os.path.exists(core_path)  (line 170)
CoreMissing == ~core_file

\* FairMarketcapDiffSF1(pretrained) is called
Call ==
    /\ app_pc \in {"idle", "returned", "failed"}
    /\ app_calls < MaxCalls
    /\ app_calls' = app_calls + 1
    /\ pretrained' \in BOOLEAN
    /\ fs0' = [sf1 |-> sf1_dir, commodities |-> commodities_dir, core |-> core_file]
    /\ prev_log' = log
    /\ log' = <<>>
    /\ app_pc' = "check_sf1"
    /\ UNCHANGED <<sf1_dir, commodities_dir, core_file>>

\* _check_download_data, lines 58-60
CheckSf1 ==
    /\ app_pc = "check_sf1"
    /\ IF Sf1Missing
       THEN \E o \in Outcomes :
              /\ log' = log \o <<"check_sf1", "download_sf1">>
              /\ sf1_dir' = DownloadMain(o)
              /\ app_pc' = IF o = "ok" THEN "check_commodities" ELSE "failed"
       ELSE /\ log' = Append(log, "check_sf1")
            /\ app_pc' = "check_commodities"
            /\ UNCHANGED sf1_dir
    /\ UNCHANGED <<commodities_dir, core_file, pretrained, app_calls, fs0, prev_log>>

\* _check_download_data, lines 62-64
CheckCommodities ==
    /\ app_pc = "check_commodities"
    /\ IF CommoditiesMissing
       THEN \E o \in Outcomes :
              /\ log' = log \o <<"check_commodities", "download_commodities">>
              /\ commodities_dir' = DownloadMain(o)
              /\ app_pc' = IF o = "ok" THEN "assemble" ELSE "failed"
       ELSE /\ log' = Append(log, "check_commodities")
            /\ app_pc' = "assemble"
            /\ UNCHANGED commodities_dir
    /\ UNCHANGED <<sf1_dir, core_file, pretrained, app_calls, fs0, prev_log>>

\* Lines 156-167: data, feature, target, model and the Pipeline are built
Assemble ==
    /\ app_pc = "assemble"
    /\ log' = Append(log, "assemble")
    /\ app_pc' = IF pretrained THEN "core" ELSE "return"
    /\ UNCHANGED <<sf1_dir, commodities_dir, core_file, pretrained, app_calls,
                   fs0, prev_log>>

\* Lines 169-171: the artifact is fetched when it is not on disk
FetchCore ==
    /\ app_pc = "core"
    /\ IF CoreMissing
       THEN \E o \in Outcomes :
              /\ log' = Append(log, "urlretrieve")
              /\ core_file' = UrlRetrieve(o)
              /\ app_pc' = IF o = "ok" THEN "load_core" ELSE "failed"
       ELSE /\ app_pc' = "load_core"
            /\ UNCHANGED <<log, core_file>>
    /\ UNCHANGED <<sf1_dir, commodities_dir, pretrained, app_calls, fs0, prev_log>>

\* Line 172: pipeline.load_core(core_path)
LoadCore ==
    /\ app_pc = "load_core"
    /\ log' = Append(log, "load_core")
    /\ \E o \in {"ok", "raises"} :
         app_pc' = IF o = "ok" THEN "return" ELSE "failed"
    /\ UNCHANGED <<sf1_dir, commodities_dir, core_file, pretrained, app_calls,
                   fs0, prev_log>>

\* Line 174: return pipeline
ReturnPipeline ==
    /\ app_pc = "return"
    /\ app_pc' = "returned"
    /\ UNCHANGED <<sf1_dir, commodities_dir, core_file, pretrained, app_calls,
                   fs0, log, prev_log>>

InitApp ==
    /\ sf1_dir \in BOOLEAN
    /\ commodities_dir \in BOOLEAN
    /\ core_file \in BOOLEAN
    /\ pretrained = FALSE
    /\ app_pc = "idle"
    /\ app_calls = 0
    /\ fs0 = [sf1 |-> sf1_dir, commodities |-> commodities_dir, core |-> core_file]
    /\ log = <<>>
    /\ prev_log = <<>>

IdleApp ==
    /\ sf1_dir = TRUE
    /\ commodities_dir = TRUE
    /\ core_file = TRUE
    /\ pretrained = FALSE
    /\ app_pc = "off"
    /\ app_calls = 0
    /\ fs0 = [sf1 |-> TRUE, commodities |-> TRUE, core |-> TRUE]
    /\ log = <<>>
    /\ prev_log = <<>>

\* Number of times event e is in the log, and its positions
Count(l, e) == Cardinality({i \in 1..Len(l) : l[i] = e})
Positions(l, e) == {i \in 1..Len(l) : l[i] = e}
Before(l, e, f) == \A i \in Positions(l, e) : \A j \in Positions(l, f) : i < j

\* C7: the dataset checks run before the pipeline is assembled; a download
\* script is invoked iff its directory did not exist when the call started;
\* the artifact is fetched iff pretrained and it was not on disk; load_core
\* runs once when pretrained, after any fetch, and never otherwise; a call
\* that starts with both directories and the artifact on disk downloads
\* nothing.
C7_DownloadsOnlyWhenAbsent ==
    /\ Before(log, "check_sf1", "assemble")
    /\ Before(log, "check_commodities", "assemble")
    /\ Before(log, "download_sf1", "assemble")
    /\ Before(log, "download_commodities", "assemble")
    /\ Count(log, "assemble") = 1 =>
          Count(log, "check_sf1") = 1 /\ Count(log, "check_commodities") = 1
    /\ Count(log, "check_sf1") = 1 =>
          Count(log, "download_sf1") = (IF fs0.sf1 THEN 0 ELSE 1)
    /\ Count(log, "check_commodities") = 1 =>
          Count(log, "download_commodities") = (IF fs0.commodities THEN 0 ELSE 1)
    /\ Count(log, "download_sf1") <= (IF fs0.sf1 THEN 0 ELSE 1)
    /\ Count(log, "download_commodities") <= (IF fs0.commodities THEN 0 ELSE 1)
    /\ Count(log, "urlretrieve") <= (IF pretrained /\ ~fs0.core THEN 1 ELSE 0)
    /\ Before(log, "urlretrieve", "load_core")
    /\ Before(log, "assemble", "load_core")
    /\ app_pc \in {"return", "returned"} =>
          /\ Count(log, "assemble") = 1
          /\ Count(log, "urlretrieve") = (IF pretrained /\ ~fs0.core THEN 1 ELSE 0)
          /\ Count(log, "load_core") = (IF pretrained THEN 1 ELSE 0)
    /\ Count(log, "load_core") <= (IF pretrained THEN 1 ELSE 0)
    /\ (fs0.sf1 /\ fs0.commodities /\ fs0.core) =>
          /\ Count(log, "download_sf1") = 0
          /\ Count(log, "download_commodities") = 0
          /\ Count(log, "urlretrieve") = 0

\* C7 witness: a first call downloaded both datasets and fetched the
\* artifact; the second call, pretrained, returned having only loaded it.
C7_Witness ==
    /\ app_calls = 2
    /\ app_pc = "returned"
    /\ pretrained
    /\ prev_log = <<"check_sf1", "download_sf1", "check_commodities",
                    "download_commodities", "assemble", "urlretrieve", "load_core">>
    /\ log = <<"check_sf1", "check_commodities", "assemble", "load_core">>

----------------------------------------------------------------------------
(* Specifications *)

notStats == <<mergeVars, qfVars, bcfVars, dbVars, appVars>>
notMerge == <<statsVars, qfVars, bcfVars, dbVars, appVars>>
notQF == <<statsVars, mergeVars, bcfVars, dbVars, appVars>>
notBCF == <<statsVars, mergeVars, qfVars, dbVars, appVars>>
notDB == <<statsVars, mergeVars, qfVars, bcfVars, appVars>>
notApp == <<statsVars, mergeVars, qfVars, bcfVars, dbVars>>

StatsInit == InitStats /\ IdleMerge /\ IdleQF /\ IdleBCF /\ IdleDB /\ IdleApp
StatsNext == CalcSeriesStats /\ UNCHANGED notStats
SpecStats == StatsInit /\ [][StatsNext]_vars

MergeInit == InitMerge /\ IdleStats /\ IdleQF /\ IdleBCF /\ IdleDB /\ IdleApp
MergeNext == FeatureMergerCalculate /\ UNCHANGED notMerge
SpecMerge == MergeInit /\ [][MergeNext]_vars

SingleInit == InitSingle /\ IdleStats /\ IdleMerge /\ IdleBCF /\ IdleDB /\ IdleApp
SingleNext == SingleTickerCall /\ UNCHANGED notQF
SpecSingle == SingleInit /\ [][SingleNext]_vars

PoolInit == InitPool /\ IdleStats /\ IdleMerge /\ IdleBCF /\ IdleDB /\ IdleApp
PoolNext ==
    \/ CalculateStart /\ UNCHANGED notQF
    \/ \E w \in Workers : WorkerTake(w) /\ UNCHANGED notQF
    \/ \E w \in Workers : WorkerFinish(w) /\ UNCHANGED notQF
    \/ CalculateNext /\ UNCHANGED notQF
    \/ CalculateReturn /\ UNCHANGED notQF
SpecPool == PoolInit /\ [][PoolNext]_vars

BCFInit == InitBCF /\ IdleStats /\ IdleMerge /\ IdleQF /\ IdleDB /\ IdleApp
BCFNext == BaseCompanyFeaturesCalculate /\ UNCHANGED notBCF
SpecBCF == BCFInit /\ [][BCFNext]_vars

DBInit == InitDB /\ IdleStats /\ IdleMerge /\ IdleQF /\ IdleBCF /\ IdleApp
DBNext == Load /\ UNCHANGED notDB
SpecDB == DBInit /\ [][DBNext]_vars

AppInit == InitApp /\ IdleStats /\ IdleMerge /\ IdleQF /\ IdleBCF /\ IdleDB
AppNext ==
    \/ Call /\ UNCHANGED notApp
    \/ CheckSf1 /\ UNCHANGED notApp
    \/ CheckCommodities /\ UNCHANGED notApp
    \/ Assemble /\ UNCHANGED notApp
    \/ FetchCore /\ UNCHANGED notApp
    \/ LoadCore /\ UNCHANGED notApp
    \/ ReturnPipeline /\ UNCHANGED notApp
SpecApp == AppInit /\ [][AppNext]_vars

====
